---- MODULE Spec2Model ----
(***************************************************************************)
(* A model of the CHIP-8 emulator: the machine (src/src/chip8.rs), its     *)
(* framebuffer (src/src/display.rs) and its random byte source             *)
(* (src/src/lsfr.rs), driven by the loop of run_chip8 (src/src/main.rs):   *)
(* key presses, cycle(), key lifts, and the render of a dirty frame that   *)
(* ends every iteration.                                                   *)
(***************************************************************************)
EXTENDS Integers, Sequences, FiniteSets, TLC

\* ------------------------------------------------------------------ bounds

\* Number of cycle() calls explored in one run.
MaxSteps == 18

\* Largest number of bytes by which a ROM file exceeds the program area.
MaxOver == 2

\* Number of cycle() calls explored in a long run of one program.
MaxRun == 246

\* Key events polled between two cycle() calls of the driver.
MaxEvents == 3

\* Number of times the driver applies its key events around a cycle() call.
MaxBatches == 4

\* Calls logged per random source.
MaxDraws == 5

\* get() calls in the walk around the shift register's cycle.
MaxWalk == 65540

\* ------------------------------------------------------- program constants

MEMORY_SIZE == 4096

START_ADDRESS == 512

FONTSET_START_ADDRESS == 80

VIDEO_HEIGHT == 32

VIDEO_WIDTH == 64

SIZE == VIDEO_HEIGHT * VIDEO_WIDTH

LSFR_SEED == 4660

FONTSET ==
  << 240, 144, 144, 144, 240,
      32,  96,  32,  32, 112,
     240,  16, 240, 128, 240,
     240,  16, 240,  16, 240,
     144, 144, 240,  16,  16,
     240, 128, 240,  16, 240,
     240, 128, 240, 144, 240,
     240,  16,  32,  64,  64,
     240, 144, 240, 144, 240,
     240, 144, 240,  16, 240,
     240, 144, 240, 144, 144,
     224, 144, 224, 144, 224,
     240, 128, 128, 128, 240,
     224, 144, 144, 144, 224,
     240, 128, 240, 128, 240,
     240, 128, 240, 128, 128 >>

\* ------------------------------------------------------------- bit helpers

Min(a, b) == IF a < b THEN a ELSE b

\* Bit i of v (v >> i) & 1.
Bit(v, i) == (v \div (2 ^ i)) % 2

\* a & b on 8-bit values.
And8(a, b) ==
  LET f[i \in 0..8] == IF i = 8 THEN 0 ELSE Bit(a, i) * Bit(b, i) * (2 ^ i) + f[i + 1]
  IN f[0]

\* a | b on 8-bit values.
Or8(a, b) ==
  LET f[i \in 0..8] ==
        IF i = 8 THEN 0
        ELSE (IF Bit(a, i) + Bit(b, i) > 0 THEN 2 ^ i ELSE 0) + f[i + 1]
  IN f[0]

\* a ^ b on 8-bit values.
Xor8(a, b) ==
  LET f[i \in 0..8] ==
        IF i = 8 THEN 0 ELSE ((Bit(a, i) + Bit(b, i)) % 2) * (2 ^ i) + f[i + 1]
  IN f[0]

\* A cell set instead of toggled (v | 1).
Or1(v) == IF v % 2 = 1 THEN v ELSE v + 1

\* A cell counted up instead of toggled (v + 1).
Inc1(v) == v + 1

\* v ^ 1 on a framebuffer cell (u32).
Xor1(v) == IF v % 2 = 1 THEN v - 1 ELSE v + 1

\* ------------------------------------------------------------------- Lsfr

\* get with the lowest bit alone as feedback: a rotation.
LsfrGetRotate(s) ==
  LET bit == Bit(s, 0)
  IN [state |-> (s \div 2) + bit * 32768, bit |-> bit]

\* Lsfr::get: the feedback bit and the shifted register.
LsfrGet(s) ==
  LET bit == (Bit(s, 0) + Bit(s, 2) + Bit(s, 3) + Bit(s, 5)) % 2
  IN [state |-> (s \div 2) + bit * 32768, bit |-> bit]

\* gen with the first bit in the most significant place.
LsfrGenMsbFirst(s) ==
  LET f[i \in 0..8] ==
        IF i = 0 THEN [state |-> s, r |-> 0]
        ELSE LET g == LsfrGet(f[i - 1].state)
             IN [state |-> g.state, r |-> (f[i - 1].r + g.bit * (2 ^ (8 - i))) % 256]
  IN f[8]

\* Lsfr::gen: eight bits, least significant first.
LsfrGen(s) ==
  LET f[i \in 0..8] ==
        IF i = 0 THEN [state |-> s, r |-> 0]
        ELSE LET g == LsfrGet(f[i - 1].state)
             IN [state |-> g.state, r |-> (f[i - 1].r + g.bit * (2 ^ (i - 1))) % 256]
  IN f[8]

\* ---------------------------------------------------------------- Display

\* [0; SIZE]
BlankVideo == [c \in 0..(SIZE - 1) |-> 0]

DisplayNew == [video |-> BlankVideo, dirty |-> TRUE]

\* Display::draw's step with pixels past the right edge dropped instead of wrapped.
DrawBitClipped(acc, x_pos, y_pos, j, i, byte) ==
  LET x == (x_pos % VIDEO_WIDTH) + i
      y == (y_pos + j) % VIDEO_HEIGHT
      c == y * VIDEO_WIDTH + x
  IN IF Bit(byte, 7 - i) # 0 /\ x < VIDEO_WIDTH
       THEN [video |-> [acc.video EXCEPT ![c] = Xor1(@)],
             collision |-> IF acc.video[c] = 1 THEN 1 ELSE acc.collision]
       ELSE acc

\* Display::draw's step with the collision flag assigned at every set bit.
DrawBitLastCollision(acc, x_pos, y_pos, j, i, byte) ==
  LET x == (x_pos + i) % VIDEO_WIDTH
      y == (y_pos + j) % VIDEO_HEIGHT
      c == y * VIDEO_WIDTH + x
  IN IF Bit(byte, 7 - i) # 0
       THEN [video |-> [acc.video EXCEPT ![c] = Xor1(@)],
             collision |-> IF acc.video[c] = 1 THEN 1 ELSE 0]
       ELSE acc

\* One sprite bit (row j, column i) of Display::draw applied to acc = [video, collision].
DrawBit(acc, x_pos, y_pos, j, i, byte) ==
  LET x == (x_pos + i) % VIDEO_WIDTH
      y == (y_pos + j) % VIDEO_HEIGHT
      c == y * VIDEO_WIDTH + x
  IN IF Bit(byte, 7 - i) # 0
       THEN [video |-> [acc.video EXCEPT ![c] = Xor1(@)],
             collision |-> IF acc.video[c] = 1 THEN 1 ELSE acc.collision]
       ELSE acc

\* The eight columns of row j of Display::draw, in order, applied to acc. (The test
\* on acc.collision always holds: it has acc evaluated before the columns are.)
DrawRow(acc, x_pos, y_pos, j, byte) ==
  LET f[i \in 0..8] ==
        IF i = 0 THEN acc ELSE DrawBit(f[i - 1], x_pos, y_pos, j, i - 1, byte)
  IN IF acc.collision \in {0, 1} THEN f[8] ELSE acc

\* Display::draw: the rows of bytes in order.
DisplayDraw(d, x_pos, y_pos, bytes) ==
  LET f[j \in 0..Len(bytes)] ==
        IF j = 0 THEN [video |-> d.video, collision |-> 0]
        ELSE DrawRow(f[j - 1], x_pos, y_pos, j - 1, bytes[j])
      res == f[Len(bytes)]
  IN [display |-> [video |-> res.video, dirty |-> TRUE], collision |-> res.collision]

\* Display::clear.
DisplayClear(d) == [d EXCEPT !.video = BlankVideo]

\* Display::set_clean.
DisplaySetClean(d) == [d EXCEPT !.dirty = FALSE]

\* ------------------------------------------------------------------ Chip8

\* Chip8::start_memory: zeroes, with the font set at FONTSET_START_ADDRESS.
start_memory ==
  [a \in 0..(MEMORY_SIZE - 1) |->
     IF a >= FONTSET_START_ADDRESS /\ a < FONTSET_START_ADDRESS + Len(FONTSET)
       THEN FONTSET[a - FONTSET_START_ADDRESS + 1]
       ELSE 0]

\* f.read(&mut memory[START_ADDRESS..]): the number of bytes one read delivers.
ReadCount(bytes) == Min(Len(bytes), MEMORY_SIZE - START_ADDRESS)

\* The memory after the read: the first ReadCount bytes of the file from START_ADDRESS.
LoadedMemory(bytes) ==
  LET n == ReadCount(bytes)
  IN [a \in START_ADDRESS..(START_ADDRESS + n - 1) |-> bytes[a - START_ADDRESS + 1]]
       @@ start_memory

\* The struct built by Chip8::read_rom around a memory.
Chip8Of(mem) ==
  [registers   |-> [r \in 0..15 |-> 0],
   memory      |-> mem,
   index       |-> 0,
   pc          |-> START_ADDRESS,
   stack       |-> [k \in 0..15 |-> 0],
   sp          |-> 0,
   delay_timer |-> 0,
   sound_timer |-> 0,
   keypad      |-> [k \in 0..15 |-> 0],
   display     |-> DisplayNew,
   lsfr        |-> LSFR_SEED]

\* What stands for the instance where none was built.
NoChip8 == << >>

\* Chip8::read_rom on a file [readable, bytes]: Err when File::open fails (no
\* instance is built), else Ok.
read_rom(file) ==
  IF ~file.readable
    THEN [ok |-> FALSE, chip8 |-> NoChip8]
    ELSE [ok |-> TRUE, chip8 |-> Chip8Of(LoadedMemory(file.bytes))]

\* The PC enum.
PCNext == [tag |-> "Next", v |-> 0]

PCSkip == [tag |-> "Skip", v |-> 0]

PCJump(v) == [tag |-> "Jump", v |-> v]

\* What one match arm leaves: the machine, the pc change, or a panic.
Done(m, pc_change) == [m |-> m, pc_change |-> pc_change, panic |-> FALSE]

\* A failing arm passed over as if it were an instruction without effect.
SilentSkip(m) == [m |-> m, pc_change |-> PCNext, panic |-> FALSE]

Panic(m) == [m |-> m, pc_change |-> PCNext, panic |-> TRUE]

nnn(n1, n2, n3) == n1 * 256 + n2 * 16 + n3

var(x1, x2) == ((x1 * 16) % 256) + x2

\* 00E0 - CLS
Op00E0(m) == Done([m EXCEPT !.display = DisplayClear(@)], PCNext)

\* 00EE - RET
Op00EE(m) ==
  IF m.sp < 1 \/ m.sp - 1 > 15
    THEN Panic(m)
    ELSE Done([m EXCEPT !.sp = @ - 1], PCJump(m.stack[m.sp - 1] + 2))

\* 1nnn - JP addr
Op1nnn(m, n1, n2, n3) == Done(m, PCJump(nnn(n1, n2, n3)))

\* 2nnn pushing the address of the next instruction.
Op2nnnPushNext(m, n1, n2, n3) ==
  IF m.sp > 15
    THEN Panic(m)
    ELSE Done([m EXCEPT !.stack[m.sp] = (m.pc + 2) % 65536, !.sp = @ + 1],
              PCJump(nnn(n1, n2, n3)))

\* 2nnn without the bounds check on the stack slot.
Op2nnnUnchecked(m, n1, n2, n3) ==
  Done([m EXCEPT !.stack = IF m.sp <= 15 THEN [@ EXCEPT ![m.sp] = m.pc % 65536] ELSE @,
                 !.sp = @ + 1],
       PCJump(nnn(n1, n2, n3)))

\* 2nnn - CALL addr
Op2nnn(m, n1, n2, n3) ==
  IF m.sp > 15
    THEN Panic(m)
    ELSE Done([m EXCEPT !.stack[m.sp] = m.pc % 65536, !.sp = @ + 1],
              PCJump(nnn(n1, n2, n3)))

\* 3xkk - SE Vx, byte
Op3xkk(m, x, k1, k2) ==
  Done(m, IF m.registers[x] = var(k1, k2) THEN PCSkip ELSE PCNext)

\* 4xkk - SNE Vx, byte
Op4xkk(m, x, k1, k2) ==
  Done(m, IF m.registers[x] # var(k1, k2) THEN PCSkip ELSE PCNext)

\* 5xy0 - SE Vx, Vy
Op5xy0(m, x, y) ==
  Done(m, IF m.registers[x] = m.registers[y] THEN PCSkip ELSE PCNext)

\* 6xkk - LD Vx, byte
Op6xkk(m, x, k1, k2) == Done([m EXCEPT !.registers[x] = var(k1, k2)], PCNext)

\* 7xkk - ADD Vx, byte
Op7xkk(m, x, k1, k2) ==
  Done([m EXCEPT !.registers[x] = (@ + var(k1, k2)) % 256], PCNext)

\* 8xy0 - LD Vx, Vy
Op8xy0(m, x, y) == Done([m EXCEPT !.registers[x] = m.registers[y]], PCNext)

\* 8xy1 - OR Vx, Vy
Op8xy1(m, x, y) == Done([m EXCEPT !.registers[x] = Or8(@, m.registers[y])], PCNext)

\* 8xy2 - AND Vx, Vy
Op8xy2(m, x, y) == Done([m EXCEPT !.registers[x] = And8(@, m.registers[y])], PCNext)

\* 8xy3 - XOR Vx, Vy
Op8xy3(m, x, y) == Done([m EXCEPT !.registers[x] = Xor8(@, m.registers[y])], PCNext)

\* 8xy4 with the carry test off by one (s >= 0xFF).
Op8xy4CarryAt255(m, x, y) ==
  LET s  == m.registers[x] + m.registers[y]
      r1 == [m.registers EXCEPT ![15] = IF s >= 255 THEN 1 ELSE 0]
      r2 == [r1 EXCEPT ![x] = s % 256]
  IN Done([m EXCEPT !.registers = r2], PCNext)

\* 8xy4 - ADD Vx, Vy: the flag is written first, then Vx.
Op8xy4(m, x, y) ==
  LET s  == m.registers[x] + m.registers[y]
      r1 == [m.registers EXCEPT ![15] = IF s > 255 THEN 1 ELSE 0]
      r2 == [r1 EXCEPT ![x] = s % 256]
  IN Done([m EXCEPT !.registers = r2], PCNext)

\* 8xy5 with the flag set only when Vx > Vy.
Op8xy5StrictFlag(m, x, y) ==
  LET vx   == m.registers[x]
      vy   == m.registers[y]
      r1   == [m.registers EXCEPT ![15] = IF vx > vy THEN 1 ELSE 0]
      r2   == [r1 EXCEPT ![x] = (vx - vy) % 256]
  IN Done([m EXCEPT !.registers = r2], PCNext)

\* 8xy5 - SUB Vx, Vy: u16 overflowing_sub, the flag first, then Vx = d as u8.
Op8xy5(m, x, y) ==
  LET vx   == m.registers[x]
      vy   == m.registers[y]
      d    == (vx - vy) % 65536
      flag == vx < vy
      r1   == [m.registers EXCEPT ![15] = IF ~flag THEN 1 ELSE 0]
      r2   == [r1 EXCEPT ![x] = d % 256]
  IN Done([m EXCEPT !.registers = r2], PCNext)

\* 8xy6 - SHR Vx: the flag first, then Vx /= 2 read from the updated registers.
Op8xy6(m, x) ==
  LET r1 == [m.registers EXCEPT ![15] = m.registers[x] % 2]
      r2 == [r1 EXCEPT ![x] = r1[x] \div 2]
  IN Done([m EXCEPT !.registers = r2], PCNext)

\* 8xy7 - SUBN Vx, Vy: u8 overflowing_sub of values read first, the flag, then Vx.
Op8xy7(m, x, y) ==
  LET vx   == m.registers[x]
      vy   == m.registers[y]
      d    == (vy - vx) % 256
      flag == vy < vx
      r1   == [m.registers EXCEPT ![15] = IF ~flag THEN 1 ELSE 0]
      r2   == [r1 EXCEPT ![x] = d]
  IN Done([m EXCEPT !.registers = r2], PCNext)

\* 8xyE - SHL Vx: the flag first, then Vx * 2 read from the updated registers.
Op8xyE(m, x) ==
  LET r1 == [m.registers EXCEPT ![15] = m.registers[x] \div 128]
      r2 == [r1 EXCEPT ![x] = (r1[x] * 2) % 256]
  IN Done([m EXCEPT !.registers = r2], PCNext)

\* 9xy0 - SNE Vx, Vy
Op9xy0(m, x, y) ==
  Done(m, IF m.registers[x] # m.registers[y] THEN PCSkip ELSE PCNext)

\* Annn - LD I, addr
OpAnnn(m, n1, n2, n3) == Done([m EXCEPT !.index = nnn(n1, n2, n3)], PCNext)

\* Bnnn - jump to nnn
OpBnnn(m, n1, n2, n3) == Done(m, PCJump(nnn(n1, n2, n3)))

\* Cxkk that leaves the random source as it found it.
OpCxkkStale(m, x, k1, k2) ==
  LET g == LsfrGen(m.lsfr)
  IN Done([m EXCEPT !.registers[x] = And8(g.r, var(k1, k2))], PCNext)

\* Cxkk - RND Vx, byte
OpCxkk(m, x, k1, k2) ==
  LET g == LsfrGen(m.lsfr)
  IN Done([m EXCEPT !.lsfr = g.state, !.registers[x] = And8(g.r, var(k1, k2))], PCNext)

\* Dxyn - DRW Vx, Vy, nibble
OpDxyn(m, x, y, n) ==
  LET vx        == m.registers[x]
      vy        == m.registers[y]
      mem_start == m.index
  IN IF mem_start + n > MEMORY_SIZE
       THEN Panic(m)
       ELSE LET bytes == [k \in 1..n |-> m.memory[mem_start + k - 1]]
                res   == DisplayDraw(m.display, vx, vy, bytes)
            IN Done([m EXCEPT !.display = res.display, !.registers[15] = res.collision],
                    PCNext)

\* Ex9E - SKP Vx
OpEx9E(m, x) ==
  LET vx == m.registers[x]
  IN IF vx > 15 THEN Panic(m)
     ELSE Done(m, IF m.keypad[vx] = 1 THEN PCSkip ELSE PCNext)

\* ExA1 - SKNP Vx
OpExA1(m, x) ==
  LET vx == m.registers[x]
  IN IF vx > 15 THEN Panic(m)
     ELSE Done(m, IF m.keypad[vx] # 1 THEN PCSkip ELSE PCNext)

\* Fx07 - LD Vx, DT
OpFx07(m, x) == Done([m EXCEPT !.registers[x] = m.delay_timer], PCNext)

\* The first pressed slot in ascending order from slot n on, or 16 when none is.
RECURSIVE FirstPressed(_, _)
FirstPressed(keypad, n) ==
  IF n > 15 THEN 16
  ELSE IF keypad[n] = 1 THEN n
  ELSE FirstPressed(keypad, n + 1)

\* The last pressed slot in ascending order from slot n on, or 16 when none is.
RECURSIVE LastPressed(_, _)
LastPressed(keypad, n) ==
  IF n > 15 THEN 16
  ELSE LET later == LastPressed(keypad, n + 1)
       IN IF later < 16 THEN later ELSE IF keypad[n] = 1 THEN n ELSE 16

\* Fx0A with the scan not stopped at the first pressed slot.
OpFx0ANoBreak(m, x) ==
  LET n == LastPressed(m.keypad, 0)
  IN IF n < 16
       THEN Done([m EXCEPT !.registers[x] = n], PCNext)
       ELSE Done(m, PCJump(m.pc))

\* Fx0A - LD Vx, K
OpFx0A(m, x) ==
  LET n == FirstPressed(m.keypad, 0)
  IN IF n < 16
       THEN Done([m EXCEPT !.registers[x] = n], PCNext)
       ELSE Done(m, PCJump(m.pc))

\* Fx15 - LD DT, Vx
OpFx15(m, x) == Done([m EXCEPT !.delay_timer = m.registers[x]], PCNext)

\* Fx18 - LD ST, Vx
OpFx18(m, x) == Done([m EXCEPT !.sound_timer = m.registers[x]], PCNext)

\* Fx1E - ADD I, Vx
OpFx1E(m, x) == Done([m EXCEPT !.index = @ + m.registers[x]], PCNext)

\* Fx29 - LD F, Vx
OpFx29(m, x) ==
  Done([m EXCEPT !.index = FONTSET_START_ADDRESS + 5 * m.registers[x]], PCNext)

\* Fx33 - LD B, Vx
\* Fx33 with the units first and the hundreds last.
OpFx33UnitsFirst(m, x) ==
  LET vx == m.registers[x]
  IN IF m.index + 2 > MEMORY_SIZE - 1
       THEN Panic(m)
       ELSE Done([m EXCEPT !.memory = [@ EXCEPT ![m.index]     = vx % 10,
                                                ![m.index + 1] = (vx \div 10) % 10,
                                                ![m.index + 2] = (vx \div 100) % 10]],
                 PCNext)

\* The three stores run in order; the first one past the end of memory panics,
\* with the stores before it made.
OpFx33(m, x) ==
  LET vx     == m.registers[x]
      digits == << (vx \div 100) % 10, (vx \div 10) % 10, vx % 10 >>
      last_ok == Min(m.index + 2, MEMORY_SIZE - 1)
      stored == [m EXCEPT !.memory =
                   [a \in m.index..last_ok |-> digits[a - m.index + 1]] @@ @]
  IN IF m.index + 2 > MEMORY_SIZE - 1
       THEN Panic(stored)
       ELSE Done(stored, PCNext)

\* Fx55 with addresses taken modulo the memory size.
OpFx55Wrapping(m, x) ==
  Done([m EXCEPT !.memory =
          [a \in { (m.index + n) % MEMORY_SIZE : n \in 0..x } |->
             m.registers[(a - m.index) % MEMORY_SIZE]] @@ @],
       PCNext)

\* Fx55 - LD [I], Vx
\* The loop stores register by register; the first store past the end of memory
\* panics, with the stores before it made.
OpFx55(m, x) ==
  LET last_ok == Min(m.index + x, MEMORY_SIZE - 1)
      stored  == [m EXCEPT !.memory =
                    [a \in m.index..last_ok |-> m.registers[a - m.index]] @@ @]
  IN IF m.index + x > MEMORY_SIZE - 1
       THEN Panic(stored)
       ELSE Done(stored, PCNext)

\* Fx65 that stops one register short of x.
OpFx65BelowX(m, x) ==
  IF m.index + x > MEMORY_SIZE - 1
    THEN Panic(m)
    ELSE Done([m EXCEPT !.registers =
                 [r \in 0..15 |-> IF r < x THEN m.memory[m.index + r] ELSE m.registers[r]]],
              PCNext)

\* Fx65 - LD Vx, [I]
\* The loop loads register by register; the first load past the end of memory
\* panics, with the loads before it made.
OpFx65(m, x) ==
  LET loaded == [m EXCEPT !.registers =
                   [r \in 0..15 |-> IF r <= x /\ m.index + r <= MEMORY_SIZE - 1
                                      THEN m.memory[m.index + r]
                                      ELSE m.registers[r]]]
  IN IF m.index + x > MEMORY_SIZE - 1
       THEN Panic(loaded)
       ELSE Done(loaded, PCNext)

\* The match on the four nibbles, arm by arm in source order.
Dispatch(m, o1, o2, o3, o4) ==
  CASE o1 = 0 /\ o2 = 0 /\ o3 = 14 /\ o4 = 0  -> Op00E0(m)
    [] o1 = 0 /\ o2 = 0 /\ o3 = 14 /\ o4 = 14 -> Op00EE(m)
    [] o1 = 1                                 -> Op1nnn(m, o2, o3, o4)
    [] o1 = 2                                 -> Op2nnn(m, o2, o3, o4)
    [] o1 = 3                                 -> Op3xkk(m, o2, o3, o4)
    [] o1 = 4                                 -> Op4xkk(m, o2, o3, o4)
    [] o1 = 5 /\ o4 = 0                       -> Op5xy0(m, o2, o3)
    [] o1 = 6                                 -> Op6xkk(m, o2, o3, o4)
    [] o1 = 7                                 -> Op7xkk(m, o2, o3, o4)
    [] o1 = 8 /\ o4 = 0                       -> Op8xy0(m, o2, o3)
    [] o1 = 8 /\ o4 = 1                       -> Op8xy1(m, o2, o3)
    [] o1 = 8 /\ o4 = 2                       -> Op8xy2(m, o2, o3)
    [] o1 = 8 /\ o4 = 3                       -> Op8xy3(m, o2, o3)
    [] o1 = 8 /\ o4 = 4                       -> Op8xy4(m, o2, o3)
    [] o1 = 8 /\ o4 = 5                       -> Op8xy5(m, o2, o3)
    [] o1 = 8 /\ o4 = 6                       -> Op8xy6(m, o2)
    [] o1 = 8 /\ o4 = 7                       -> Op8xy7(m, o2, o3)
    [] o1 = 8 /\ o4 = 14                      -> Op8xyE(m, o2)
    [] o1 = 9 /\ o4 = 0                       -> Op9xy0(m, o2, o3)
    [] o1 = 10                                -> OpAnnn(m, o2, o3, o4)
    [] o1 = 11                                -> OpBnnn(m, o2, o3, o4)
    [] o1 = 12                                -> OpCxkk(m, o2, o3, o4)
    [] o1 = 13                                -> OpDxyn(m, o2, o3, o4)
    [] o1 = 14 /\ o3 = 9 /\ o4 = 14           -> OpEx9E(m, o2)
    [] o1 = 14 /\ o3 = 10 /\ o4 = 1           -> OpExA1(m, o2)
    [] o1 = 15 /\ o3 = 0 /\ o4 = 7            -> OpFx07(m, o2)
    [] o1 = 15 /\ o3 = 0 /\ o4 = 10           -> OpFx0A(m, o2)
    [] o1 = 15 /\ o3 = 1 /\ o4 = 5            -> OpFx15(m, o2)
    [] o1 = 15 /\ o3 = 1 /\ o4 = 8            -> OpFx18(m, o2)
    [] o1 = 15 /\ o3 = 1 /\ o4 = 14           -> OpFx1E(m, o2)
    [] o1 = 15 /\ o3 = 2 /\ o4 = 9            -> OpFx29(m, o2)
    [] o1 = 15 /\ o3 = 3 /\ o4 = 3            -> OpFx33(m, o2)
    [] o1 = 15 /\ o3 = 5 /\ o4 = 5            -> OpFx55(m, o2)
    [] o1 = 15 /\ o3 = 6 /\ o4 = 5            -> OpFx65(m, o2)
    [] OTHER                                  -> Panic(m)

\* The match on pc_change that ends process_instruction.
ApplyPC(m, pc_change) ==
  CASE pc_change.tag = "Next" -> [m EXCEPT !.pc = @ + 2]
    [] pc_change.tag = "Skip" -> [m EXCEPT !.pc = @ + 4]
    [] pc_change.tag = "Jump" -> [m EXCEPT !.pc = pc_change.v]

\* Chip8::process_instruction: [m, panic].
process_instruction(m, instruction) ==
  LET hi  == instruction \div 256
      lo  == instruction % 256
      res == Dispatch(m, hi \div 16, hi % 16, lo \div 16, lo % 16)
  IN IF res.panic
       THEN [m |-> res.m, panic |-> TRUE]
       ELSE [m |-> ApplyPC(res.m, res.pc_change), panic |-> FALSE]

\* Timers decremented as wrapping 8-bit values.
TickTimersWrapping(m) ==
  [m EXCEPT !.delay_timer = (@ - 1) % 256,
            !.sound_timer = (@ - 1) % 256]

\* The timer updates that end Chip8::cycle.
TickTimers(m) ==
  [m EXCEPT !.delay_timer = IF @ > 0 THEN @ - 1 ELSE @,
            !.sound_timer = IF @ > 0 THEN @ - 1 ELSE @]

\* The 16-bit word cycle fetches at pc (big-endian).
Fetch(m) == m.memory[m.pc] * 256 + m.memory[m.pc + 1]

\* Chip8::cycle: [m, panic]; the fetch panics when pc or pc + 1 is outside memory.
cycle(m) ==
  IF m.pc + 1 > MEMORY_SIZE - 1
    THEN [m |-> m, panic |-> TRUE]
    ELSE LET res == process_instruction(m, Fetch(m))
         IN IF res.panic THEN res ELSE [m |-> TickTimers(res.m), panic |-> FALSE]

\* Chip8::press_key: [m, panic]; keypad has 16 slots and an index past them
\* panics (index out of bounds) with nothing written.
press_key(m, idx) ==
  IF idx \in 0..15
    THEN [m |-> [m EXCEPT !.keypad[idx] = 1], panic |-> FALSE]
    ELSE [m |-> m, panic |-> TRUE]

\* Chip8::lift_key: [m, panic], as press_key.
lift_key(m, idx) ==
  IF idx \in 0..15
    THEN [m |-> [m EXCEPT !.keypad[idx] = 0], panic |-> FALSE]
    ELSE [m |-> m, panic |-> TRUE]

\* Chip8::is_dirty
is_dirty(m) == m.display.dirty

\* Chip8::set_clean
set_clean(m) == [m EXCEPT !.display = DisplaySetClean(@)]

\* Chip8::get_video
get_video(m) == m.display.video

\* ------------------------------------------------------------ ROM images

\* A ROM file as read_rom sees it.
File(bytes) == [readable |-> TRUE, bytes |-> bytes]

Unreadable == [readable |-> FALSE, bytes |-> << >>]

\* The two bytes of the instruction with nibbles o1 o2 o3 o4.
Ins(o1, o2, o3, o4) == << o1 * 16 + o2, o3 * 16 + o4 >>

\* The two bytes of an instruction with a 12-bit address, and of one with a byte.
InsA(o1, addr) == << o1 * 16 + (addr \div 256), addr % 256 >>

InsB(o1, x, kk) == << o1 * 16 + x, kk >>

\* code, the word 0000 (no instruction: execution stops there), then data.
Image(code, data) == File(code \o << 0, 0 >> \o data)

\* The address data starts at in Image(code, data).
DataAt(code) == START_ADDRESS + Len(code) + 2

\* bytes followed by fill up to length len.
Padded(bytes, len, fill) == bytes \o [i \in 1..(len - Len(bytes)) |-> fill]

\* Operand values and register pairs of the arithmetic programs.
AluValues == {0, 5, 10, 20, 128, 250, 255}

AluRegs == {0, 1, 14, 15}

AluPairs == AluRegs \X AluRegs

AluOps == {4, 5, 6, 7, 14}

\* LD Vx, a; LD Vy, b; 8xy<op>.
AluRoms ==
  { Image(InsB(6, p[1], a) \o InsB(6, p[2], b) \o Ins(8, p[1], p[2], op), << >>) :
      p \in AluPairs, a \in AluValues, b \in AluValues, op \in AluOps }

\* Call and return, the key wait, and files of every size around the program area.
CallRet ==
  Image(InsA(2, 518) \o InsB(6, 1, 5) \o << 0, 0 >> \o Ins(0, 0, 14, 14), << >>)

Nested ==
  Image(InsA(2, 520) \o InsB(6, 1, 1) \o << 0, 0 >> \o << 0, 0 >>
        \o InsA(2, 526) \o InsB(6, 2, 2) \o Ins(0, 0, 14, 14)
        \o InsB(6, 3, 3) \o Ins(0, 0, 14, 14), << >>)

Recursion == Image(InsA(2, 512), << >>)

ReturnFirst == Image(Ins(0, 0, 14, 14), << >>)

KeyWait(x) == Image(InsB(6, x, 170) \o Ins(15, x, 0, 10) \o InsB(7, x, 1), << >>)

Sized(len) == File(Padded(InsB(6, 1, 7) \o << 0, 0 >>, len, 17))

\* Words no arm of the match takes: 0000, 00E1, 0123, 5121, 8128, 812F, 9121,
\* E19F, E1A2, F100, F1FF.
UnknownWords == {0, 225, 291, 20769, 33064, 33071, 37153, 57759, 57762, 61696, 61951}

\* LD V1, 7; the word; LD V2, 9.
Unknown(w) ==
  Image(InsB(6, 1, 7) \o << w \div 256, w % 256 >> \o InsB(6, 2, 9), << >>)

UnknownRoms == { Unknown(w) : w \in UnknownWords }

\* Delay and sound values the timer programs set.
TimerPairs == { <<0, 0>>, <<1, 2>>, <<3, 2>>, <<255, 0>> }

\* LD V0, a; LD V1, b; LD DT, V0; LD ST, V1; LD V3, K; LD V2, DT; LD DT, V0; LD V4, 1.
Timer(a, b) ==
  Image(InsB(6, 0, a) \o InsB(6, 1, b) \o Ins(15, 0, 1, 5) \o Ins(15, 1, 1, 8)
        \o Ins(15, 3, 0, 10) \o Ins(15, 2, 0, 7) \o Ins(15, 0, 1, 5)
        \o InsB(6, 4, 1), << >>)

TimerRoms == { Timer(p[1], p[2]) : p \in TimerPairs }

\* Masks of the three RND instructions of a random-fill program.
RndMasks == { <<255, 15, 170>>, <<0, 255, 240>>, <<170, 85, 255>> }

\* RND V0, kk1; LD V1, 5; RND V2, kk2; CLS; ADD V1, V1; RND V0, kk3; LD V3, 1.
Rnd(kks) ==
  Image(InsB(12, 0, kks[1]) \o InsB(6, 1, 5) \o InsB(12, 2, kks[2])
        \o Ins(0, 0, 14, 0) \o Ins(8, 1, 1, 4) \o InsB(12, 0, kks[3])
        \o InsB(6, 3, 1), << >>)

RndRoms == { Rnd(kks) : kks \in RndMasks }

FlowRoms ==
  {CallRet, Nested, Recursion, ReturnFirst, Unreadable, File(<< >>)}
    \cup UnknownRoms
    \cup RndRoms
    \cup { KeyWait(x) : x \in {0, 5, 15} }
    \cup { Sized(len) : len \in (MEMORY_SIZE - START_ADDRESS - 1)
                                  ..(MEMORY_SIZE - START_ADDRESS + MaxOver) }

\* Words that read or write memory from index: F033, F133, F055, F155, F255,
\* F065, F265, D010, D011, D012, D013.
MemWords == {61491, 61747, 61525, 61781, 62037, 61541, 62053, 53264, 53265, 53266, 53267}

MemAddrs == {4093, 4094, 4095}

MemAdds == {0, 1, 2, 3, 255}

\* LD V0, add; LD V1, 17; LD V2, 34; LD I, addr; ADD I, V0; the word; LD V3, 1.
Edge(addr, add, w) ==
  Image(InsB(6, 0, add) \o InsB(6, 1, 17) \o InsB(6, 2, 34)
        \o InsA(10, addr) \o Ins(15, 0, 1, 14)
        \o << w \div 256, w % 256 >> \o InsB(6, 3, 1), << >>)

EdgeRoms == { Edge(addr, add, w) : addr \in MemAddrs, add \in MemAdds, w \in MemWords }

\* Words that store to memory or load from it: F033, F055, F255, F065.
FontWords == {61491, 61525, 62037, 61541}

FontDigits == {0, 9, 15}

\* LD V0, digit; LD V1, 17; LD V2, 34; LD F, V0; the word; LD V3, 1.
FontStore(digit, w) ==
  Image(InsB(6, 0, digit) \o InsB(6, 1, 17) \o InsB(6, 2, 34)
        \o Ins(15, 0, 2, 9)
        \o << w \div 256, w % 256 >> \o InsB(6, 3, 1), << >>)

FontRoms == { FontStore(d, w) : d \in FontDigits, w \in FontWords }

MemRoms == EdgeRoms \cup FontRoms

\* n times the two bytes of ADD I, V0.
AddIndex(n) == [i \in 1..(2 * n) |-> IF i % 2 = 1 THEN 240 ELSE 30]

\* Fx1E instructions in the climbing program.
ClimbAdds == 241

\* LD V0, 255; LD I, 0xFFF; ADD I, V0 again and again.
Climb == Image(InsB(6, 0, 255) \o InsA(10, 4095) \o AddIndex(ClimbAdds), << >>)

\* LD VF, 200; LD I, 0xFFF; ADD I, VF; LD V1, 255; LD F, V1; ADD I, V1; LD I, 0.
IndexMix ==
  Image(InsB(6, 15, 200) \o InsA(10, 4095) \o Ins(15, 15, 1, 14)
        \o InsB(6, 1, 255) \o Ins(15, 1, 2, 9) \o Ins(15, 1, 1, 14)
        \o InsA(10, 0), << >>)

IndexRoms == {Climb, IndexMix}

\* Register and index of the programs that store decimal digits: in free memory,
\* at the last three bytes, and in the font area.
BcdPlaces == { <<0, 768>>, <<5, 4093>>, <<15, 80>> }

\* LD Vx, v; LD I, addr; LD B, Vx; LD V3, 1.
Bcd(x, v, addr) ==
  Image(InsB(6, x, v) \o InsA(10, addr) \o Ins(15, x, 3, 3) \o InsB(6, 3, 1), << >>)

BcdRoms == { Bcd(p[1], v, p[2]) : p \in BcdPlaces, v \in 0..255 }

\* Sixteen register values of the programs that store and load registers.
StoreData == << 17, 34, 51, 68, 85, 102, 119, 136, 153, 170, 187, 204, 221, 238, 255, 7 >>

\* Where the programs store: free memory, the last sixteen bytes, the font area.
StoreAddrs == {768, 4080, 80}

\* LD I, data; LD VF, [I]; LD I, addr; LD [I], Vx; LD V0, 55; LD Vx, 66;
\* LD Vx, [I].
StoreCode(x, addr, data_at) ==
  InsA(10, data_at) \o Ins(15, 15, 6, 5) \o InsA(10, addr) \o Ins(15, x, 5, 5)
    \o InsB(6, 0, 85) \o InsB(6, x, 102) \o Ins(15, x, 6, 5)

Store(x, addr) ==
  Image(StoreCode(x, addr, DataAt(StoreCode(x, addr, 0))), StoreData)

StoreRoms == { Store(x, addr) : x \in 0..15, addr \in StoreAddrs }

\* Sprite data of the drawing programs: C0 | 80 00.
DrawData == << 192, 128, 0 >>

\* The address DrawData is loaded at: after eight instructions and the word 0000.
DrawDataAt == START_ADDRESS + 18

\* Sprites as <<address, rows>>: C0, 80 00, glyph 0, three zero bytes, no rows,
\* and the fifteen rows of glyphs 0..2.
DrawSprites ==
  { <<DrawDataAt, 1>>, <<DrawDataAt + 1, 2>>, <<FONTSET_START_ADDRESS, 5>>,
    <<0, 3>>, <<DrawDataAt, 0>>, <<FONTSET_START_ADDRESS, 15>> }

DrawXs == {0, 60, 63, 200}

DrawYs == {0, 31, 250}

\* LD V1, vx; LD V2, vy; LD I, s1; DRW V1, V2, n1; LD I, s2; DRW V1, V2, n2;
\* DRW V1, V2, n2; CLS.
DrawRom(vx, vy, s1, s2) ==
  Image(InsB(6, 1, vx) \o InsB(6, 2, vy)
        \o InsA(10, s1[1]) \o Ins(13, 1, 2, s1[2])
        \o InsA(10, s2[1]) \o Ins(13, 1, 2, s2[2])
        \o Ins(13, 1, 2, s2[2])
        \o Ins(0, 0, 14, 0), DrawData)

DrawRoms ==
  { DrawRom(vx, vy, s1, s2) : vx \in DrawXs, vy \in DrawYs,
                              s1 \in DrawSprites, s2 \in DrawSprites }

\* Keys whose events the driver receives.
DriverKeys == {0, 7}

\* JP 0x200
Spin == Image(InsA(1, START_ADDRESS), << >>)

DriverRoms == {Spin, KeyWait(5)}

\* Keys the driver presses and lifts.
Keys == {0, 7, 15}

\* ------------------------------------------------------------- the system

VARIABLES
  chip8,    \* the Chip8 instance
  status,   \* "running", "panicked" (the process died in a call on the instance),
            \* "unreachable" (it died in the driver's rendering), "load_error"
            \* (read_rom gave Err) or "quit" (the driver left its loop)
  rom,      \* the file read_rom was given
  trace,    \* per cycle() call, as it found the instance: pc, the word fetched, sp,
            \* the registers its second and third nibbles name, index, all
            \* registers; and the dirty flag as the call left it, before the render
  shown,    \* the framebuffer as the last cycle() call found it
  last,     \* what handled the instance last: "read_rom", "cycle" (a loop iteration
            \* that ran cycle()) or "driver" (a key call, or an iteration that
            \* only rendered)
  screen,   \* the frame the driver's Screen presented last
  rng,      \* two Lsfr instances on their own, as the tests of lsfr.rs build them
  driver    \* run_chip8's keys_pressed and keys_up, and the key events polled since
            \* the last time it applied them

vars == << chip8, status, rom, trace, shown, last, screen, rng, driver >>

\* run_chip8 before its loop: both vectors empty, no event polled.
FreshDriver == [keys_pressed |-> << >>, keys_up |-> << >>, events |-> << >>]

\* An Lsfr::new() with nothing asked of it yet: its register, the number of get()
\* calls made on it, and the first MaxDraws calls with what they returned.
FreshSource == [lsfr |-> LSFR_SEED, gets |-> 0, log |-> << >>]

\* The log with one more call, while it has room.
Logged(src, kind, out) ==
  IF Len(src.log) < MaxDraws
    THEN Append(src.log, [kind |-> kind, from |-> src.lsfr, out |-> out])
    ELSE src.log

\* x.get() on a source.
SourceGet(src) ==
  LET g == LsfrGet(src.lsfr)
  IN [lsfr |-> g.state, gets |-> src.gets + 1, log |-> Logged(src, "get", g.bit)]

\* x.gen() on a source.
SourceGen(src) ==
  LET g == LsfrGen(src.lsfr)
  IN [lsfr |-> g.state, gets |-> src.gets + 8, log |-> Logged(src, "gen", g.r)]

InitWith(files) ==
  \E f \in files :
    \E r \in {read_rom(f)} :
       /\ rom = f
       /\ chip8 = r.chip8
       /\ status = IF r.ok THEN "running" ELSE "load_error"
       /\ trace = << >>
       /\ shown = IF r.ok THEN r.chip8.display.video ELSE << >>
       /\ last = "read_rom"
       /\ screen = IF r.ok THEN BlankVideo ELSE << >>
       /\ rng = [a |-> FreshSource, b |-> FreshSource]
       /\ driver = FreshDriver

\* What trace records of a cycle() call on m that left the instance as left.
Entry(m, left) ==
  LET op == IF m.pc + 1 < MEMORY_SIZE THEN Fetch(m) ELSE -1
  IN [pc     |-> m.pc,
      opcode |-> op,
      sp     |-> m.sp,
      vx     |-> IF op < 0 THEN 0 ELSE m.registers[(op \div 256) % 16],
      vy     |-> IF op < 0 THEN 0 ELSE m.registers[(op \div 16) % 16],
      index  |-> m.index,
      registers |-> m.registers,
      dirty  |-> is_dirty(left)]

\* Screen::update_from_video: the frame presented after it; a cell that is
\* neither 0 nor 1 reaches unreachable!() before anything is presented.
update_from_video(presented, video) ==
  IF video \in [0..(SIZE - 1) -> {0, 1}]
    THEN [frame |-> video, panic |-> FALSE]
    ELSE [frame |-> presented, panic |-> TRUE]

\* The end of every loop iteration:
\* if chip8.is_dirty() { screen.update_from_video(chip8.get_video()); chip8.set_clean() }
Render(m, presented) ==
  IF ~is_dirty(m)
    THEN [m |-> m, frame |-> presented, panic |-> FALSE]
    ELSE LET r == update_from_video(presented, get_video(m))
         IN [m     |-> IF r.panic THEN m ELSE set_clean(m),
             frame |-> r.frame,
             panic |-> r.panic]

\* A loop iteration with dt > cycle_delay and no key event pending, while fewer
\* than limit cycle() calls were made: chip8.cycle(), then the render. A panic in
\* cycle() ends the process before the render.
CycleWithin(limit) ==
  /\ status = "running"
  /\ Len(trace) < limit
  /\ LET res == cycle(chip8)
         shw == Render(res.m, screen)
     IN /\ chip8' = IF res.panic THEN res.m ELSE shw.m
        /\ screen' = IF res.panic THEN screen ELSE shw.frame
        /\ status' = IF res.panic THEN "panicked"
                      ELSE IF shw.panic THEN "unreachable" ELSE "running"
        /\ trace' = Append(trace, Entry(chip8, res.m))
  /\ shown' = chip8.display.video
  /\ last' = "cycle"
  /\ UNCHANGED << rom, rng, driver >>

\* chip8.cycle() and the render that ends its iteration.
Cycle == CycleWithin(MaxSteps)

\* chip8.cycle() and the render that ends its iteration, in a long run.
LongCycle == CycleWithin(MaxRun)

\* chip8.press_key(i)
PressKey ==
  /\ status = "running"
  /\ \E i \in Keys :
       LET r == press_key(chip8, i)
       IN /\ chip8' = r.m
          /\ status' = IF r.panic THEN "panicked" ELSE "running"
  /\ last' = "driver"
  /\ UNCHANGED << rom, trace, shown, screen, rng, driver >>

\* chip8.lift_key(i)
LiftKey ==
  /\ status = "running"
  /\ \E i \in Keys :
       LET r == lift_key(chip8, i)
       IN /\ chip8' = r.m
          /\ status' = IF r.panic THEN "panicked" ELSE "running"
  /\ last' = "driver"
  /\ UNCHANGED << rom, trace, shown, screen, rng, driver >>

\* A loop iteration with dt <= cycle_delay and a dirty frame: only the render.
SetClean ==
  /\ status = "running"
  /\ is_dirty(chip8)
  /\ LET shw == Render(chip8, screen)
     IN /\ screen' = shw.frame
        /\ status' = IF shw.panic THEN "unreachable" ELSE "running"
        /\ chip8' = shw.m
  /\ last' = "driver"
  /\ UNCHANGED << rom, trace, shown, rng, driver >>

\* for i in keys_pressed.drain(..) { chip8.press_key(i) }: [m, panic], the first
\* panic ends the process.
RECURSIVE PressAll(_, _)
PressAll(m, keys) ==
  IF keys = << >>
    THEN [m |-> m, panic |-> FALSE]
    ELSE LET r == press_key(m, Head(keys))
         IN IF r.panic THEN r ELSE PressAll(r.m, Tail(keys))

\* for i in keys_up.drain(..) { chip8.lift_key(i) }: [m, panic], as PressAll.
RECURSIVE LiftAll(_, _)
LiftAll(m, keys) ==
  IF keys = << >>
    THEN [m |-> m, panic |-> FALSE]
    ELSE LET r == lift_key(m, Head(keys))
         IN IF r.panic THEN r ELSE LiftAll(r.m, Tail(keys))

\* Event::KeyDown with a key keycode_to_idx maps to k: keys_pressed.push(k)
KeyDown ==
  /\ status = "running"
  /\ Len(driver.events) < MaxEvents
  /\ \E k \in DriverKeys :
       driver' = [driver EXCEPT !.keys_pressed = Append(@, k),
                                !.events = Append(@, [kind |-> "down", key |-> k])]
  /\ UNCHANGED << chip8, status, rom, trace, shown, last, screen, rng >>

\* Event::KeyUp with a key keycode_to_idx maps to k: keys_up.push(k)
KeyUp ==
  /\ status = "running"
  /\ Len(driver.events) < MaxEvents
  /\ \E k \in DriverKeys :
       driver' = [driver EXCEPT !.keys_up = Append(@, k),
                                !.events = Append(@, [kind |-> "up", key |-> k])]
  /\ UNCHANGED << chip8, status, rom, trace, shown, last, screen, rng >>

\* Event::Quit or Escape: break 'running
Quit ==
  /\ status = "running"
  /\ status' = "quit"
  /\ UNCHANGED << chip8, rom, trace, shown, last, screen, rng, driver >>

\* A loop iteration with dt > cycle_delay: press the keys of keys_pressed,
\* chip8.cycle(), lift the keys of keys_up, then the render. A panic ends the
\* process where it happens.
Timestep ==
  /\ status = "running"
  /\ Len(trace) < MaxBatches
  /\ LET pressed == PressAll(chip8, driver.keys_pressed)
         res     == cycle(pressed.m)
         lifted  == LiftAll(res.m, driver.keys_up)
         shw     == Render(lifted.m, screen)
         died    == pressed.panic \/ res.panic \/ lifted.panic
     IN /\ chip8' = IF pressed.panic THEN pressed.m
                     ELSE IF res.panic THEN res.m
                     ELSE IF lifted.panic THEN lifted.m
                     ELSE shw.m
        /\ screen' = IF died THEN screen ELSE shw.frame
        /\ status' = IF died THEN "panicked"
                      ELSE IF shw.panic THEN "unreachable" ELSE "running"
        /\ driver' = IF pressed.panic THEN driver
                      ELSE IF res.panic \/ lifted.panic
                             THEN [driver EXCEPT !.keys_pressed = << >>]
                      ELSE FreshDriver
        /\ trace' = IF pressed.panic THEN trace
                     ELSE Append(trace, Entry(pressed.m, res.m))
        /\ shown' = IF pressed.panic THEN shown ELSE pressed.m.display.video
  /\ last' = "cycle"
  /\ UNCHANGED << rom, rng >>

\* x.get() on one of the two sources.
LsfrGetCall ==
  /\ \E i \in {"a", "b"} :
       /\ Len(rng[i].log) < MaxDraws
       /\ rng' = [rng EXCEPT ![i] = SourceGet(@)]
  /\ UNCHANGED << chip8, status, rom, trace, shown, last, screen, driver >>

\* x.gen() on one of the two sources.
LsfrGenCall ==
  /\ \E i \in {"a", "b"} :
       /\ Len(rng[i].log) < MaxDraws
       /\ rng' = [rng EXCEPT ![i] = SourceGen(@)]
  /\ UNCHANGED << chip8, status, rom, trace, shown, last, screen, driver >>

\* x.get() again and again on the first source.
LsfrWalk ==
  /\ rng.a.gets < MaxWalk
  /\ rng' = [rng EXCEPT !.a = SourceGet(@)]
  /\ UNCHANGED << chip8, status, rom, trace, shown, last, screen, driver >>

\* The loop with key calls around its iterations, and the loop with no key event.
Next == Cycle \/ PressKey \/ LiftKey \/ SetClean

NextVideo == Cycle \/ SetClean

NextCpu == Cycle \/ SetClean

\* Control flow, key input and loading, with key calls.
Init == InitWith(FlowRoms)

Spec == Init /\ [][Next]_vars

\* The arithmetic programs, no key event.
InitAlu == InitWith(AluRoms)

SpecAlu == InitAlu /\ [][NextCpu]_vars

\* The drawing programs, no key event.
InitVideo == InitWith(DrawRoms)

SpecVideo == InitVideo /\ [][NextVideo]_vars

\* The timer programs, with key calls.
InitTimer == InitWith(TimerRoms)

SpecTimer == InitTimer /\ [][Next]_vars

\* The programs at the ends of memory and in the font area, no key event.
InitMem == InitWith(MemRoms)

SpecMem == InitMem /\ [][NextCpu]_vars

\* The programs that move the index register, no key event, in a long run.
NextLong == LongCycle \/ SetClean

InitIndex == InitWith(IndexRoms)

SpecIndex == InitIndex /\ [][NextLong]_vars

\* The programs that store decimal digits, no key event.
InitBcd == InitWith(BcdRoms)

SpecBcd == InitBcd /\ [][NextCpu]_vars

\* The programs that store and load registers, no key event.
InitStore == InitWith(StoreRoms)

SpecStore == InitStore /\ [][NextCpu]_vars

\* The driver's loop with its key events: polled into the two vectors, applied
\* around cycle(), and the frame rendered.
NextDriver == KeyDown \/ KeyUp \/ Timestep \/ SetClean \/ Quit

InitDriver == InitWith(DriverRoms)

SpecDriver == InitDriver /\ [][NextDriver]_vars

\* The random source on its own: no machine is built.
NextLsfr == LsfrGetCall \/ LsfrGenCall

InitLsfr == InitWith({Unreadable})

SpecLsfr == InitLsfr /\ [][NextLsfr]_vars

\* The random source asked for bit after bit.
NextWalk == LsfrWalk

SpecWalk == InitLsfr /\ [][NextWalk]_vars

\* -------------------------------------------------------- reading a step

\* The nibbles of a fetched word.
N1(op) == op \div 4096

N2(op) == (op \div 256) % 16

N3(op) == (op \div 16) % 16

N4(op) == op % 16

\* The word the last cycle() fetched (-1 before the first).
LastOp == IF Len(trace) = 0 THEN -1 ELSE trace[Len(trace)].opcode

\* The last call on the instance was a cycle() that ran an instruction to its end.
Stepped == Len(trace) > 0 /\ status = "running" /\ last = "cycle"

\* This step is a cycle() that runs the instruction at pc to its end.
CycleRuns == Len(trace') = Len(trace) + 1 /\ status' = "running"

\* The word such a step fetches, and the registers its second and third nibbles name.
Op == Fetch(chip8)

X == N2(Op)

Y == N3(Op)

VX == chip8.registers[X]

VY == chip8.registers[Y]

\* This step runs 8xy<op4>.
RunsAlu(op4) == CycleRuns /\ N1(Op) = 8 /\ N4(Op) = op4

\* ------------------------------------------------------------- arithmetic

\* C2: each of 8xy4, 8xy5, 8xy6, 8xy7, 8xyE, for every x and y (x = 15 included),
\* leaves in register 15 the operation's flag computed from the operands held
\* before the instruction.
C2_FlagAlwaysInVF ==
  [][ /\ RunsAlu(4)  => chip8'.registers[15] = (IF VX + VY > 255 THEN 1 ELSE 0)
      /\ RunsAlu(5)  => chip8'.registers[15] = (IF VX >= VY THEN 1 ELSE 0)
      /\ RunsAlu(6)  => chip8'.registers[15] = VX % 2
      /\ RunsAlu(7)  => chip8'.registers[15] = (IF VY >= VX THEN 1 ELSE 0)
      /\ RunsAlu(14) => chip8'.registers[15] = VX \div 128 ]_vars

\* C6: 8xy4 with x in 0..14 leaves register x = (vx + vy) mod 256 and register 15 = 1
\* if vx + vy > 255, else 0.
C6_AddWithCarry ==
  [][ (RunsAlu(4) /\ X <= 14)
        => /\ chip8'.registers[X] = (VX + VY) % 256
           /\ chip8'.registers[15] = (IF VX + VY > 255 THEN 1 ELSE 0) ]_vars

\* 250 + 10 in V1, V14: V1 = 4 and the flag is 1.
C6_Witness ==
  /\ Stepped
  /\ rom = Image(InsB(6, 1, 250) \o InsB(6, 14, 10) \o Ins(8, 1, 14, 4), << >>)
  /\ LastOp = 8 * 4096 + 1 * 256 + 14 * 16 + 4
  /\ chip8.registers[1] = 4
  /\ chip8.registers[14] = 10
  /\ chip8.registers[15] = 1

\* C7: with x in 0..14, 8xy5 leaves register x = (vx - vy) mod 256 and register 15 = 1
\* exactly when vx >= vy; 8xy7 leaves register x = (vy - vx) mod 256 and register 15 = 1
\* exactly when vy >= vx.
C7_SubWithBorrow ==
  [][ /\ (RunsAlu(5) /\ X <= 14)
          => /\ chip8'.registers[X] = (VX - VY) % 256
             /\ chip8'.registers[15] = (IF VX >= VY THEN 1 ELSE 0)
      /\ (RunsAlu(7) /\ X <= 14)
          => /\ chip8'.registers[X] = (VY - VX) % 256
             /\ chip8'.registers[15] = (IF VY >= VX THEN 1 ELSE 0) ]_vars

\* 5 - 10 in V1, V14: V1 = 251 and the flag is 0.
C7_Witness ==
  /\ Stepped
  /\ rom = Image(InsB(6, 1, 5) \o InsB(6, 14, 10) \o Ins(8, 1, 14, 5), << >>)
  /\ LastOp = 8 * 4096 + 1 * 256 + 14 * 16 + 5
  /\ chip8.registers[1] = 251
  /\ chip8.registers[14] = 10
  /\ chip8.registers[15] = 0

\* ------------------------------------------------------------ framebuffer

\* This step runs Dxyn.
RunsDraw == CycleRuns /\ N1(Op) = 13

\* The cells a Dxyn run from the current state is to flip.
DrawTargets ==
  { ((VY + row) % VIDEO_HEIGHT) * VIDEO_WIDTH + ((VX + col) % VIDEO_WIDTH) :
      <<row, col>> \in { rc \in (0..(N4(Op) - 1)) \X (0..7) :
                           Bit(chip8.memory[chip8.index + rc[1]], 7 - rc[2]) = 1 } }

\* C1: a cycle() that runs 00E0 leaves every framebuffer cell 0 and the dirty
\* flag set, also when the dirty flag had been cleared by set_clean before it.
C1_ClearMarksDirty ==
  [][ (CycleRuns /\ Op = 224)
        => /\ \A c \in 0..(SIZE - 1) : chip8'.display.video[c] = 0
           /\ trace'[Len(trace')].dirty ]_vars

\* C3: a Dxyn that repeats the previous step's Dxyn (same sprite, same position)
\* restores the framebuffer to what it was before the first of the two, and sets
\* register 15 to 1 when the first had turned a cell from 0 to 1.
C3_DrawTwiceRestores ==
  [][ ( /\ RunsDraw
        /\ Len(trace) > 0
        /\ trace[Len(trace)].opcode = Op
        /\ trace[Len(trace)].vx = VX
        /\ trace[Len(trace)].vy = VY
        /\ trace[Len(trace)].index = chip8.index )
        => /\ chip8'.display.video = shown
           /\ (\E c \in 0..(SIZE - 1) : shown[c] = 0 /\ chip8.display.video[c] = 1)
                => chip8'.registers[15] = 1 ]_vars

\* Glyph 0 drawn twice at (60, 31) over the sprite C0 drawn there before: the
\* first glyph draw turned cell (62, 31) on and cell (60, 31) off, the second
\* brought back the framebuffer that held only C0, with the flag at 1.
C3_Witness ==
  /\ Stepped
  /\ Len(trace) = 7
  /\ trace[6].opcode = 13 * 4096 + 1 * 256 + 2 * 16 + 5
  /\ trace[7].opcode = trace[6].opcode
  /\ trace[6].vx = 60 /\ trace[7].vx = 60
  /\ trace[6].vy = 31 /\ trace[7].vy = 31
  /\ trace[6].index = FONTSET_START_ADDRESS /\ trace[7].index = FONTSET_START_ADDRESS
  /\ shown[31 * VIDEO_WIDTH + 62] = 1
  /\ shown[31 * VIDEO_WIDTH + 60] = 0
  /\ shown[0 * VIDEO_WIDTH + 60] = 1
  /\ chip8.display.video[31 * VIDEO_WIDTH + 62] = 0
  /\ chip8.display.video[31 * VIDEO_WIDTH + 60] = 1
  /\ chip8.display.video[31 * VIDEO_WIDTH + 61] = 1
  /\ chip8.display.video[0 * VIDEO_WIDTH + 60] = 0
  /\ chip8.registers[15] = 1

\* C4: Dxyn flips exactly the cells ((vy+row) mod 32)*64 + ((vx+col) mod 64), for
\* row < n and col < 8 with bit (7-col) of memory[I+row] set, and changes no other.
C4_DrawFlipsExactlyTargets ==
  [][ RunsDraw
        => \A targets \in {DrawTargets} :
             \A c \in 0..(SIZE - 1) :
               chip8'.display.video[c] =
                 IF c \in targets THEN 1 - chip8.display.video[c]
                                  ELSE chip8.display.video[c] ]_vars

\* The one-row sprite C0 drawn at (63, 0) on the blank framebuffer: cells (63,0)
\* and (0,0) are on and no other.
C4_Witness ==
  /\ Stepped
  /\ Len(trace) = 4
  /\ LastOp = 13 * 4096 + 1 * 256 + 2 * 16 + 1
  /\ trace[4].vx = 63
  /\ trace[4].vy = 0
  /\ chip8.memory[trace[4].index] = 192
  /\ shown = BlankVideo
  /\ chip8.display.video = [BlankVideo EXCEPT ![63] = 1, ![0] = 1]

\* C5: after Dxyn register 15 is 1 if a cell that was 1 before the draw is 0 after
\* it, and 0 otherwise.
C5_CollisionFlag ==
  [][ RunsDraw
        => chip8'.registers[15] =
             IF \E c \in 0..(SIZE - 1) :
                  chip8.display.video[c] = 1 /\ chip8'.display.video[c] = 0
               THEN 1 ELSE 0 ]_vars

\* Glyph 0 drawn over the sprite C0 at (0, 0): only its first row collides, its
\* last row does not, and the flag is 1.
C5_Witness ==
  /\ Stepped
  /\ Len(trace) = 6
  /\ rom = DrawRom(0, 0, <<DrawDataAt, 1>>, <<FONTSET_START_ADDRESS, 5>>)
  /\ shown = [BlankVideo EXCEPT ![0] = 1, ![1] = 1]
  /\ chip8.display.video[0] = 0
  /\ chip8.display.video[1] = 0
  /\ chip8.display.video[4 * VIDEO_WIDTH] = 1
  /\ chip8.registers[15] = 1

\* ----------------------------------------------------------- control flow

\* This step is a cycle() call that fetches a word.
CycleFetches == Len(trace') = Len(trace) + 1 /\ chip8.pc + 1 < MEMORY_SIZE

\* The position in trace of the call a return executed now resumes after: going
\* back from position i, the first 2nnn not yet returned from (pending counts the
\* returns met on the way); 0 when there is none.
RECURSIVE OpenCall(_, _)
OpenCall(i, pending) ==
  IF i = 0 THEN 0
  ELSE IF trace[i].opcode = 238 THEN OpenCall(i - 1, pending + 1)
  ELSE IF N1(trace[i].opcode) = 2
         THEN IF pending = 0 THEN i ELSE OpenCall(i - 1, pending - 1)
  ELSE OpenCall(i - 1, pending)

\* C8: 2nnn at address a with depth d < 16 stores a in stack slot d, sets pc = nnn
\* and the depth to d + 1; a 00EE sets pc to the address of the latest call not
\* yet returned from plus 2 and the depth back to the depth at that call.
C8_CallReturn ==
  [][ /\ (CycleFetches /\ N1(Op) = 2 /\ chip8.sp < 16)
          => /\ status' = "running"
             /\ chip8'.stack[chip8.sp] = chip8.pc
             /\ chip8'.pc = Op % 4096
             /\ chip8'.sp = chip8.sp + 1
      /\ (CycleRuns /\ Op = 238)
          => /\ OpenCall(Len(trace), 0) > 0
             /\ chip8'.pc = trace[OpenCall(Len(trace), 0)].pc + 2
             /\ chip8'.sp = trace[OpenCall(Len(trace), 0)].sp ]_vars

\* The nested calls at 0x200 and 0x208 after both returns: the inner return went to
\* 0x20A, the outer one to 0x202, and the stack is empty again.
C8_Witness ==
  /\ Stepped
  /\ rom = Nested
  /\ Len(trace) = 6
  /\ trace[1].pc = 512 /\ N1(trace[1].opcode) = 2
  /\ trace[2].pc = 520 /\ N1(trace[2].opcode) = 2
  /\ trace[4].opcode = 238
  /\ trace[5].pc = 522
  /\ trace[6].opcode = 238
  /\ chip8.pc = 514
  /\ chip8.sp = 0
  /\ chip8.stack[0] = 512
  /\ chip8.stack[1] = 520

\* ------------------------------------------------------------------- keys

\* This step runs Fx0A.
RunsWait == CycleRuns /\ N1(Op) = 15 /\ N3(Op) = 0 /\ N4(Op) = 10

Pressed == { k \in 0..15 : chip8.keypad[k] = 1 }

\* C9: a step at an Fx0A with no key pressed leaves pc and register x unchanged; a
\* step at an Fx0A with a key pressed loads the lowest pressed index into register
\* x and advances pc by 2.
C9_KeyWait ==
  [][ /\ (RunsWait /\ Pressed = {})
          => /\ chip8'.pc = chip8.pc
             /\ chip8'.registers[X] = chip8.registers[X]
      /\ (RunsWait /\ Pressed # {})
          => /\ \A k \in Pressed : chip8'.registers[X] <= k
             /\ chip8'.registers[X] \in Pressed
             /\ chip8'.pc = chip8.pc + 2 ]_vars

\* F50A at 0x202 stepped twice with no key down, then with keys 7 and 15 down:
\* V5 = 7 and pc = 0x204.
C9_Witness ==
  /\ Stepped
  /\ rom = KeyWait(5)
  /\ Len(trace) = 4
  /\ trace[2].pc = 514 /\ trace[3].pc = 514 /\ trace[4].pc = 514
  /\ trace[3].vx = 170 /\ trace[4].vx = 170
  /\ LastOp = 15 * 4096 + 5 * 256 + 10
  /\ chip8.keypad[0] = 0 /\ chip8.keypad[7] = 1 /\ chip8.keypad[15] = 1
  /\ chip8.registers[5] = 7
  /\ chip8.pc = 516

\* ---------------------------------------------------------------- loading

\* C10: constructing a machine from an image longer than 4096 - 0x200 bytes fails
\* with a load error.
C10_OversizedImageRejected ==
  Len(rom.bytes) > MEMORY_SIZE - START_ADDRESS => status = "load_error"

\* ------------------------------------------------------------ fatal stops

\* The words the instruction set gives a meaning to.
Recognized(op) ==
  \/ op \in {224, 238}
  \/ N1(op) \in {1, 2, 3, 4, 6, 7, 10, 11, 12, 13}
  \/ N1(op) \in {5, 9} /\ N4(op) = 0
  \/ N1(op) = 8 /\ N4(op) \in {0, 1, 2, 3, 4, 5, 6, 7, 14}
  \/ N1(op) = 14 /\ op % 256 \in {158, 161}
  \/ N1(op) = 15 /\ op % 256 \in {7, 10, 21, 24, 30, 41, 51, 85, 101}

\* C11: a cycle() that fetches a word outside the instruction set ends with the
\* process panicked and registers and pc untouched; once panicked, the machine
\* never changes and no cycle() is logged again; and the empty file gives a
\* running machine at pc = 0x200 whose first cycle() fetches 0000 and panics.
C11_UnknownOpcodeFatal ==
  [][ /\ (CycleFetches /\ ~Recognized(Op))
         => /\ status' = "panicked"
            /\ chip8'.pc = chip8.pc
            /\ chip8'.registers = chip8.registers
      /\ (status = "panicked" => UNCHANGED << chip8, status, trace >>)
      /\ (rom = File(<< >>) /\ trace = << >>)
         => /\ status = "running"
            /\ chip8.pc = START_ADDRESS
            /\ Len(trace') = 1 => (Op = 0 /\ status' = "panicked") ]_vars

\* The empty file: one cycle() fetched 0000 at 0x200 and the process panicked.
C11_Witness ==
  /\ rom = File(<< >>)
  /\ status = "panicked"
  /\ Len(trace) = 1
  /\ trace[1].pc = START_ADDRESS
  /\ trace[1].opcode = 0
  /\ chip8.pc = START_ADDRESS

\* C12: the stack pointer is within 0..16 before and after every step; a 2nnn at
\* depth 16 and a 00EE at depth 0 end with the process panicked, the stack
\* pointer and every stack slot as they were.
C12_StackPointerInRange ==
  [][ /\ chip8.sp \in 0..16
      /\ chip8'.sp \in 0..16
      /\ (CycleFetches /\ N1(Op) = 2 /\ chip8.sp = 16)
         => (status' = "panicked" /\ chip8'.sp = 16 /\ chip8'.stack = chip8.stack)
      /\ (CycleFetches /\ Op = 238 /\ chip8.sp = 0)
         => (status' = "panicked" /\ chip8'.sp = 0 /\ chip8'.stack = chip8.stack) ]_vars

\* The program that calls itself: sixteen calls filled the stack and the
\* seventeenth panicked.
C12_Witness ==
  /\ rom = Recursion
  /\ status = "panicked"
  /\ Len(trace) = 17
  /\ trace[16].sp = 15
  /\ trace[17].sp = 16
  /\ N1(trace[17].opcode) = 2
  /\ chip8.sp = 16
  /\ \A k \in 0..15 : chip8.stack[k] = START_ADDRESS

\* ---------------------------------------------------------- memory access

\* The addresses the instruction at pc reads or writes from index.
Touched ==
  IF N1(Op) = 13 THEN { chip8.index + k : k \in 0..(N4(Op) - 1) }
  ELSE IF N1(Op) = 15 /\ Op % 256 = 51 THEN chip8.index..(chip8.index + 2)
  ELSE IF N1(Op) = 15 /\ Op % 256 \in {85, 101} THEN chip8.index..(chip8.index + X)
  ELSE {}

\* C13: a Dxyn, Fx33, Fx55 or Fx65 that touches an address >= 4096 ends with the
\* process panicked; memory stays the 4096 bytes 0..4095, and a step changes no
\* byte but those the instruction touches within 0..4095; a panicked Fx65 has
\* loaded only registers whose address is within memory, a panicked Dxyn nothing.
C13_OutOfRangeAccessFatal ==
  [][ CycleFetches =>
        \A touched \in {Touched} :
          /\ (\E a \in touched : a >= MEMORY_SIZE) => status' = "panicked"
          /\ DOMAIN chip8'.memory = 0..(MEMORY_SIZE - 1)
          /\ chip8'.memory =
               [a \in touched \cap (0..(MEMORY_SIZE - 1)) |-> chip8'.memory[a]]
                 @@ chip8.memory
          /\ (N1(Op) = 15 /\ Op % 256 = 101 /\ status' = "panicked")
             => \A r \in 0..15 :
                  chip8'.registers[r] =
                    IF r <= X /\ chip8.index + r < MEMORY_SIZE
                      THEN chip8.memory[chip8.index + r]
                      ELSE chip8.registers[r]
          /\ (N1(Op) = 13 /\ status' = "panicked")
             => (chip8'.registers = chip8.registers /\ chip8'.display = chip8.display) ]_vars

\* F155 with index = 4095: register 0 went to address 4095, the store of register
\* 1 panicked, and address 0 is as it was.
C13_Witness ==
  /\ rom = Edge(4094, 1, 61781)
  /\ status = "panicked"
  /\ Len(trace) = 6
  /\ trace[6].opcode = 61781
  /\ trace[6].index = 4095
  /\ chip8.memory[4095] = 1
  /\ chip8.memory[0] = 0
  /\ chip8.memory[1] = 0

\* ------------------------------------------------------------------ timers

\* A timer value after one tick.
Ticked(v) == IF v > 0 THEN v - 1 ELSE 0

\* C14: both timers stay within 0..255; a completed cycle() leaves each timer at
\* one tick below the value the instruction left it at (register x for Fx15 and
\* Fx18, the old value otherwise, a waiting Fx0A included), never below 0; any
\* other step leaves both timers as they were.
C14_TimersTickToZero ==
  [][ /\ chip8'.delay_timer \in 0..255
      /\ chip8'.sound_timer \in 0..255
      /\ CycleRuns
         => /\ chip8'.delay_timer =
                 Ticked(IF N1(Op) = 15 /\ Op % 256 = 21 THEN VX ELSE chip8.delay_timer)
            /\ chip8'.sound_timer =
                 Ticked(IF N1(Op) = 15 /\ Op % 256 = 24 THEN VX ELSE chip8.sound_timer)
      /\ (CycleRuns /\ ~(N1(Op) = 15 /\ Op % 256 = 21))
         => chip8.delay_timer - chip8'.delay_timer \in {0, 1}
      /\ (CycleRuns /\ ~(N1(Op) = 15 /\ Op % 256 = 24))
         => chip8.sound_timer - chip8'.sound_timer \in {0, 1}
      /\ ~CycleRuns
         => /\ chip8'.delay_timer = chip8.delay_timer
            /\ chip8'.sound_timer = chip8.sound_timer ]_vars

\* Delay 3 and sound 2 set, then Fx0A waiting: the second waiting cycle() found
\* both timers at 0, left them there and left pc on the Fx0A.
C14_Witness ==
  /\ Stepped
  /\ rom = Timer(3, 2)
  /\ Len(trace) = 7
  /\ trace[5].pc = START_ADDRESS + 8
  /\ trace[7].pc = START_ADDRESS + 8
  /\ trace[7].opcode = 15 * 4096 + 3 * 256 + 10
  /\ chip8.pc = START_ADDRESS + 8
  /\ chip8.delay_timer = 0
  /\ chip8.sound_timer = 0

\* C15: addresses 0x50..0x9F hold the 80 bytes of the font set in every state.
C15_GlyphTableFixed ==
  \A a \in FONTSET_START_ADDRESS..(FONTSET_START_ADDRESS + Len(FONTSET) - 1) :
    chip8.memory[a] = FONTSET[a - FONTSET_START_ADDRESS + 1]

\* ------------------------------------------------------------- the frame

\* C16: every framebuffer cell is 0 or 1, and the process never dies in the
\* driver's rendering.
C16_CellsAreBits ==
  /\ chip8.display.video \in [0..(SIZE - 1) -> {0, 1}]
  /\ status # "unreachable"

\* The sprite C0 drawn three times at (63, 0) and then rendered: cells (63,0) and
\* (0,0), switched on, off and on again, are presented as 1 and cell (1,0) as 0.
C16_Witness ==
  /\ rom = DrawRom(63, 0, <<DrawDataAt, 1>>, <<DrawDataAt, 1>>)
  /\ Len(trace) = 7
  /\ N1(trace[7].opcode) = 13
  /\ trace[7].dirty
  /\ status = "running"
  /\ ~chip8.display.dirty
  /\ screen = chip8.display.video
  /\ screen[63] = 1 /\ screen[0] = 1 /\ screen[1] = 0
  /\ shown[63] = 0 /\ shown[0] = 0

\* C17: a cycle() that finds the dirty flag set leaves it set (it goes from set
\* to clear only in the driver's render and set_clean round), and whenever the
\* flag is clear, as cycle() leaves it or between iterations, the framebuffer is
\* the frame the driver presented last.
C17_CleanMeansRendered ==
  [][ /\ (Len(trace') = Len(trace) + 1 /\ chip8.display.dirty)
         => trace'[Len(trace')].dirty
      /\ (CycleRuns /\ ~trace'[Len(trace')].dirty) => get_video(chip8') = screen
      /\ ~chip8.display.dirty => get_video(chip8) = screen
      /\ ~chip8'.display.dirty => get_video(chip8') = screen' ]_vars

\* ------------------------------------------------------ the random source

\* The regression vectors: the first bits and the first bytes of a fresh source.
FirstBits == << 0, 1, 1, 1, 0 >>

FirstBytes == << 110, 36, 219, 80, 112 >>

\* The first n calls logged are all of one kind.
AllOfKind(log, n, kind) == n <= Len(log) /\ \A i \in 1..n : log[i].kind = kind

\* The register after k get() calls from s, and the k-th bit returned.
RECURSIVE StateAfter(_, _)
StateAfter(s, k) == IF k = 0 THEN s ELSE LsfrGet(StateAfter(s, k - 1)).state

BitAfter(s, k) == LsfrGet(StateAfter(s, k - 1)).bit

\* C18: two fresh sources asked the same calls have returned the same values and
\* hold the same register; a source asked only for bits returns 0, 1, 1, 1, 0
\* first, one asked only for bytes 110, 36, 219, 80, 112; and every byte returned
\* has as bit i the (i+1)-th of the eight bits get() returns from the same register.
C18_RandomSourceVectors ==
  /\ \A n \in 0..Min(Len(rng.a.log), Len(rng.b.log)) :
       (\A i \in 1..n : rng.a.log[i].kind = rng.b.log[i].kind)
         => \A i \in 1..n : rng.a.log[i] = rng.b.log[i]
  /\ (Len(rng.a.log) = Len(rng.b.log)
        /\ \A i \in 1..Len(rng.a.log) : rng.a.log[i].kind = rng.b.log[i].kind)
       => rng.a = rng.b
  /\ \A src \in {rng.a, rng.b} :
       /\ \A n \in 1..Min(Len(src.log), Len(FirstBits)) :
            AllOfKind(src.log, n, "get") => src.log[n].out = FirstBits[n]
       /\ \A n \in 1..Min(Len(src.log), Len(FirstBytes)) :
            AllOfKind(src.log, n, "gen") => src.log[n].out = FirstBytes[n]
       /\ \A n \in 1..Len(src.log) :
            src.log[n].kind = "gen"
              => \A i \in 0..7 : Bit(src.log[n].out, i) = BitAfter(src.log[n].from, i + 1)
  /\ \A n \in 1..Len(rng.a.log) :
       (AllOfKind(rng.a.log, n, "get") /\ AllOfKind(rng.b.log, 1, "gen"))
         => rng.a.log[n].out = Bit(rng.b.log[1].out, n - 1)

\* One source asked five times for a byte and the other five times for a bit.
C18_Witness ==
  /\ Len(rng.a.log) = 5
  /\ Len(rng.b.log) = 5
  /\ AllOfKind(rng.a.log, 5, "gen")
  /\ AllOfKind(rng.b.log, 5, "get")
  /\ [i \in 1..5 |-> rng.a.log[i].out] = FirstBytes
  /\ [i \in 1..5 |-> rng.b.log[i].out] = FirstBits
  /\ rng.a.gets = 40
  /\ rng.b.gets = 5

\* The register get() must have started from to leave t: bits 1..15 are bits
\* 0..14 of t, and bit 0 is what makes the feedback bit equal to bit 15 of t.
LsfrUnget(t) ==
  ((t % 32768) * 2) + ((Bit(t, 15) + Bit(t, 1) + Bit(t, 2) + Bit(t, 4)) % 2)

\* C19: walking from the seed one get() at a time, the register is never 0, is
\* back at the seed after 65535 calls and at no call before, and no two registers
\* on the way are followed by the same register (each is recovered from its
\* successor), so the 65535 registers on the way are all the nonzero values.
C19_MaximalLength ==
  /\ rng.a.lsfr \in 1..65535
  /\ (rng.a.lsfr = LSFR_SEED) <=> (rng.a.gets \in {0, 65535})
  /\ LsfrUnget(LsfrGet(rng.a.lsfr).state) = rng.a.lsfr

\* The walk after 65535 calls: back at the seed.
C19_Witness ==
  /\ rng.a.gets = 65535
  /\ rng.a.lsfr = LSFR_SEED
  /\ Len(rng.a.log) = MaxDraws

\* The number of Cxkk among the cycle() calls logged.
RndCount == Cardinality({ i \in 1..Len(trace) : N1(trace[i].opcode) = 12 })

\* The k-th byte a fresh source generates.
NthByte(k) == LsfrGen(StateAfter(LSFR_SEED, 8 * (k - 1))).r

\* C20: the machine's random source changes only in a cycle() that runs Cxkk; the
\* k-th Cxkk run moves it on by eight get() calls and leaves in register x the
\* k-th byte of a fresh source ANDed with kk, the other registers as they were.
C20_RandomFill ==
  [][ /\ chip8'.lsfr # chip8.lsfr => (CycleRuns /\ N1(Op) = 12)
      /\ (CycleRuns /\ N1(Op) = 12)
         => /\ chip8'.lsfr = StateAfter(chip8.lsfr, 8)
            /\ chip8'.lsfr = StateAfter(LSFR_SEED, 8 * (RndCount + 1))
            /\ chip8'.registers =
                 [chip8.registers EXCEPT ![X] = And8(NthByte(RndCount + 1), Op % 256)] ]_vars

\* RND V0, FF; RND V2, 0F; RND V0, AA with other instructions in between: the
\* third found 110 in register 0 and left 219 & 170 there, register 2 holds 36 & 15.
C20_Witness ==
  /\ Stepped
  /\ rom = Rnd(<<255, 15, 170>>)
  /\ Len(trace) = 6
  /\ trace[6].vx = 110
  /\ chip8.registers[0] = 138
  /\ chip8.registers[2] = 4
  /\ chip8.registers[1] = 10
  /\ chip8.lsfr = StateAfter(LSFR_SEED, 24)

\* --------------------------------------------------------------- the index

\* C21: the index register is within 0..0xFFFF after every step, and a step that
\* runs Fx1E leaves register 15 as it was.
C21_IndexFitsSixteenBits ==
  [][ /\ chip8'.index \in 0..65535
      /\ (CycleRuns /\ N1(Op) = 15 /\ Op % 256 = 30)
         => chip8'.registers[15] = chip8.registers[15] ]_vars

\* ------------------------------------------------------- stores and loads

\* C22: an Fx33 with index + 2 < 4096 runs to its end and leaves at index,
\* index + 1, index + 2 three digits 0..9 with 100 * d1 + 10 * d2 + d3 equal to
\* register x; every other byte, every register and index are as they were.
C22_DecimalDigits ==
  [][ (CycleFetches /\ N1(Op) = 15 /\ Op % 256 = 51 /\ chip8.index + 2 < MEMORY_SIZE)
        => /\ status' = "running"
           /\ \A k \in 0..2 : chip8'.memory[chip8.index + k] \in 0..9
           /\ 100 * chip8'.memory[chip8.index] + 10 * chip8'.memory[chip8.index + 1]
                + chip8'.memory[chip8.index + 2] = VX
           /\ chip8'.memory =
                [a \in chip8.index..(chip8.index + 2) |-> chip8'.memory[a]] @@ chip8.memory
           /\ chip8'.registers = chip8.registers
           /\ chip8'.index = chip8.index ]_vars

\* 254 in register 5 stored at the last three bytes of memory: 2, 5, 4.
C22_Witness ==
  /\ Stepped
  /\ rom = Bcd(5, 254, 4093)
  /\ Len(trace) = 3
  /\ trace[3].vx = 254
  /\ trace[3].index = 4093
  /\ chip8.memory[4093] = 2
  /\ chip8.memory[4094] = 5
  /\ chip8.memory[4095] = 4
  /\ chip8.index = 4093
  /\ chip8.registers[5] = 254

\* This step fetches Fx55 (low byte 0x55) or Fx65 (low byte 0x65) with every
\* address index..index + x inside memory.
FetchesCopy(low) ==
  CycleFetches /\ N1(Op) = 15 /\ Op % 256 = low /\ chip8.index + X < MEMORY_SIZE

\* The positions in trace of an Fx55 with the x and index of the Fx65 at pc, with
\* no instruction that stores to memory logged after it.
StoredBefore ==
  { i \in 1..Len(trace) :
      /\ trace[i].opcode = Op - 16
      /\ trace[i].index = chip8.index
      /\ \A j \in (i + 1)..Len(trace) :
           ~(N1(trace[j].opcode) = 15 /\ trace[j].opcode % 256 \in {51, 85}) }

\* C23: an Fx55 with index + x < 4096 leaves registers 0..x at index..index + x
\* and every other byte, every register and index as they were; an Fx65 leaves
\* the bytes at index..index + x in registers 0..x and the registers above x,
\* memory and index as they were; and an Fx65 after an Fx55 with the same x and
\* index leaves in registers 0..x the values they had at the Fx55.
C23_StoreAndLoad ==
  [][ /\ FetchesCopy(85)
         => /\ status' = "running"
            /\ chip8'.memory =
                 [a \in chip8.index..(chip8.index + X) |-> chip8.registers[a - chip8.index]]
                   @@ chip8.memory
            /\ chip8'.registers = chip8.registers
            /\ chip8'.index = chip8.index
      /\ FetchesCopy(101)
         => /\ status' = "running"
            /\ chip8'.registers =
                 [r \in 0..15 |-> IF r <= X THEN chip8.memory[chip8.index + r]
                                            ELSE chip8.registers[r]]
            /\ chip8'.memory = chip8.memory
            /\ chip8'.index = chip8.index
            /\ \A i \in StoredBefore :
                 \A r \in 0..X : chip8'.registers[r] = trace[i].registers[r] ]_vars

\* Registers 0..15 stored at the last sixteen bytes of memory, registers 0 and 15
\* overwritten, and all sixteen loaded back.
C23_Witness ==
  /\ Stepped
  /\ rom = Store(15, 4080)
  /\ Len(trace) = 7
  /\ trace[4].opcode = 15 * 4096 + 15 * 256 + 85
  /\ trace[7].opcode = 15 * 4096 + 15 * 256 + 101
  /\ trace[7].registers[0] = 85
  /\ trace[7].registers[15] = 102
  /\ \A r \in 0..15 : chip8.registers[r] = StoreData[r + 1]
  /\ \A r \in 0..15 : chip8.memory[4080 + r] = StoreData[r + 1]
  /\ chip8.index = 4080

\* ------------------------------------------------------ the driver's keys

\* The keys with an event polled since the driver last applied its events.
EventKeys == { driver.events[i].key : i \in 1..Len(driver.events) }

\* The kind of the last event polled for key k.
LastKind(k) ==
  LET at == { i \in 1..Len(driver.events) : driver.events[i].key = k }
  IN driver.events[CHOOSE i \in at : \A j \in at : j <= i].kind

\* C24: when the driver has applied the events polled since the last cycle()
\* (presses, cycle(), lifts), the keypad slot of every key with an event is 1 if
\* the last event polled for it was a key-down and 0 if it was a key-up.
C24_LastKeyEventWins ==
  [][ CycleRuns
        => \A k \in EventKeys :
             chip8'.keypad[k] = IF LastKind(k) = "down" THEN 1 ELSE 0 ]_vars

====
